---- MODULE Spec2Model ----
(***************************************************************************)
(* Model of pybpodapi/bpod/bpod_com_protocol.py (class BpodCOMProtocol):   *)
(* the serial-message store, USB port discovery, capability negotiation,   *)
(* manual override, enable-ports and the other acknowledged commands, and  *)
(* the analog sample reader, as state machines over the driver's fields    *)
(* and a log of the I/O each call performs on its connections.             *)
(***************************************************************************)
EXTENDS Integers, Sequences, FiniteSets, TLC

VARIABLES
    msg_id_list,   \* self.msg_id_list: 0-based index -> BOOLEAN
    hardware,      \* self.hardware: the capabilities record
    channels,      \* self.hardware.channels: input / output channel-name tables
    io,            \* I/O events performed by the most recent command call
    last,          \* the most recent command call: name, arguments, outcome
    disc,          \* the running _bpodcom_identify_USB_serial_ports call
    analog_rx,     \* bytes waiting in the analog connection's receive buffer
    life,          \* bpod_com_ready, the three role connections, their closes
    drain          \* a running _bpodcom_read_analog_input_samples call

vars == <<msg_id_list, hardware, channels, io, last, disc, analog_rx, life,
          drain>>

(***************************************************************************)
(* Bounds of the model.                                                    *)
(***************************************************************************)
MaxMsgLen == 4
MaxPorts == 4
MaxChannels == 2
MaxAnalogBytes == 6

(***************************************************************************)
(* Program constants.                                                      *)
(***************************************************************************)
MsgIdListLen == 255
MaxMessageId == 255
DefaultSerialMessageMaxBytes == 3
FirmwareThreshold == 22
NoPort == 0
NoByte == -1
PRIMARY_PORT_PING == 222
SECONDARY_PORT_HANDSHAKE_OK == 222
ANALOG_PORT_HANDSHAKE_OK == 223
LOAD_SERIAL_MESSAGE_OK == 1
RESET_SERIAL_MESSAGES_OK == 1
HANDSHAKE_OK == 53
DISCONNECT_OK == 49
RESET_CLOCK_OK == 1
ENABLE_PORTS_OK == 1
SYNC_CHANNEL_MODE_OK == 1
SET_FLEX_CHANNEL_TYPES_OK == 1
SET_ANALOG_INPUT_SAMPLING_INTERVAL_OK == 1
SET_ANALOG_INPUT_THRESHOLDS_OK == 1
SET_ANALOG_INPUT_THRESHOLD_POLARITY_OK == 1
SET_ANALOG_INPUT_THRESHOLD_MODE_OK == 1
ENABLE_ANALOG_INPUT_THRESHOLD_OK == 1

(***************************************************************************)
(* Python list semantics used by the code.                                 *)
(***************************************************************************)
Min(a, b) == IF a <= b THEN a ELSE b

\* list[i] = v on a list of n items raises IndexError unless -n <= i <= n-1
PyIndexValid(n, i) == -n <= i /\ i <= n - 1

\* the 0-based position a valid (possibly negative) index addresses
PyIndex(n, i) == IF i < 0 THEN n + i ELSE i

\* list.index(x) / list.remove(x) succeed iff x occurs in the list
PyContains(list, x) == \E k \in 1..Len(list) : list[k] = x

\* position of the first occurrence of x (1-based), 0 when absent
PyFirst(list, x) ==
    IF PyContains(list, x)
    THEN CHOOSE k \in 1..Len(list) :
            list[k] = x /\ \A j \in 1..(k - 1) : list[j] # x
    ELSE 0

\* list.remove(x) when x occurs: drops the first occurrence
PyRemove(list, x) ==
    LET k == PyFirst(list, x)
    IN  IF k = 0 THEN list
        ELSE [j \in 1..(Len(list) - 1) |-> IF j < k THEN list[j] ELSE list[j + 1]]

RECURSIVE PyRemoveAll(_, _)
\* for x in xs: list.remove(x)
PyRemoveAll(list, xs) ==
    IF xs = <<>> THEN list
    ELSE PyRemoveAll(PyRemove(list, Head(xs)), Tail(xs))

(***************************************************************************)
(* I/O events.                                                             *)
(***************************************************************************)
WriteEv(conn, opcode, payload, ok) ==
    [op |-> "write", conn |-> conn, opcode |-> opcode, payload |-> payload, ok |-> ok]

ReadEv(conn, width, value, ok) ==
    [op |-> "read", conn |-> conn, width |-> width, value |-> value, ok |-> ok]

Call(op, args, outcome, ret) ==
    [op |-> op, args |-> args, outcome |-> outcome, ret |-> ret]

(***************************************************************************)
(* _bpodcom_load_serial_message                                            *)
(***************************************************************************)
\* isinstance(serial_channel, BpodModule) -> serial_channel.serial_port
ResolveSerialChannel(serial_channel) ==
    IF serial_channel.kind = "BpodModule" THEN serial_channel.serial_port
    ELSE serial_channel.value

MarkSlotOnly(table, message_id) ==
    [k \in DOMAIN table |-> k = PyIndex(MsgIdListLen, message_id)]

\* self.msg_id_list[message_id] = True
MarkSlot(table, message_id) ==
    [table EXCEPT ![PyIndex(MsgIdListLen, message_id)] = TRUE]

\* the assignment runs first, before either check
MarkSlotRaises(message_id) == ~PyIndexValid(MsgIdListLen, message_id)

\* len(serial_message) > max_bytes
MessageTooLong(serial_message, max_bytes) == Len(serial_message) > max_bytes

MessageIdRejectedOffByOne(message_id) ==
    ~(0 <= message_id /\ message_id <= MaxMessageId)

\* not (1 <= message_id <= 255)
MessageIdRejected(message_id) ==
    ~(1 <= message_id /\ message_id <= MaxMessageId)

\* [serial_channel-1, n_messages, message_id, len(serial_message)] + serial_message
MessageContainer(serial_channel, message_id, serial_message, n_messages) ==
    <<ResolveSerialChannel(serial_channel) - 1, n_messages, message_id,
      Len(serial_message)>> \o serial_message

\* write_array then read_uint8 on the primary connection, with the transport's
\* outcome dev = [fault, response]
AckExchange(opcode, payload, dev) ==
    IF dev.fault = "write"
    THEN <<WriteEv("primary", opcode, payload, FALSE)>>
    ELSE IF dev.fault = "read"
    THEN <<WriteEv("primary", opcode, payload, TRUE),
           ReadEv("primary", 1, NoByte, FALSE)>>
    ELSE <<WriteEv("primary", opcode, payload, TRUE),
           ReadEv("primary", 1, dev.response, TRUE)>>

AckOutcome(dev) == IF dev.fault = "none" THEN "return" ELSE "SerialException"

AckReturnAnyResponse(dev, ok_code) == dev.fault = "none"

\* return response == ReceiveMessageHeader.<command>_OK
AckReturn(dev, ok_code) == dev.fault = "none" /\ dev.response = ok_code

\* the whole call: [table, io, outcome, ret]
LoadSerialMessage(table, serial_channel, message_id, serial_message, n_messages, max_bytes, dev) ==
    IF MarkSlotRaises(message_id)
    THEN [table |-> table, io |-> <<>>, outcome |-> "IndexError", ret |-> FALSE]
    ELSE IF MessageTooLong(serial_message, max_bytes)
    THEN [table |-> MarkSlot(table, message_id), io |-> <<>>,
          outcome |-> "BpodErrorException", ret |-> FALSE]
    ELSE IF MessageIdRejected(message_id)
    THEN [table |-> MarkSlot(table, message_id), io |-> <<>>,
          outcome |-> "BpodErrorException", ret |-> FALSE]
    ELSE [table |-> MarkSlot(table, message_id),
          io |-> AckExchange("LOAD_SERIAL_MESSAGE",
                    MessageContainer(serial_channel, message_id, serial_message,
                                     n_messages), dev),
          outcome |-> AckOutcome(dev),
          ret |-> AckReturn(dev, LOAD_SERIAL_MESSAGE_OK)]

\* inputs of the store
MessageIds == {-(MsgIdListLen + 1), -MsgIdListLen, -1, 0, 1,
               MsgIdListLen - 1, MaxMessageId, MaxMessageId + 1}

Messages == {[k \in 1..n |-> k] : n \in 0..MaxMsgLen}

MaxBytesChoices == {1, DefaultSerialMessageMaxBytes}

SerialChannels ==
    {[kind |-> "int", value |-> 1, serial_port |-> 0],
     [kind |-> "BpodModule", value |-> 0, serial_port |-> 2]}

Responses == {0, 1}

DeviceOutcomes ==
    {[fault |-> "none", response |-> r] : r \in Responses}
    \cup {[fault |-> f, response |-> 0] : f \in {"write", "read"}}

bpodcom_load_serial_message ==
    \E serial_channel \in SerialChannels, message_id \in MessageIds,
       serial_message \in Messages, max_bytes \in MaxBytesChoices,
       dev \in DeviceOutcomes :
        \E r \in {LoadSerialMessage(msg_id_list, serial_channel, message_id,
                                    serial_message, 1, max_bytes, dev)} :
            /\ msg_id_list' = r.table
            /\ io' = r.io
            /\ last' = Call("load_serial_message",
                            [serial_channel |-> serial_channel,
                             message_id |-> message_id,
                             serial_message |-> serial_message,
                             max_bytes |-> max_bytes],
                            r.outcome, r.ret)
            /\ UNCHANGED <<hardware, channels, disc, analog_rx, life, drain>>

(***************************************************************************)
(* _bpodcom_reset_serial_messages                                          *)
(***************************************************************************)
bpodcom_reset_serial_messages ==
    \E dev \in DeviceOutcomes :
        /\ io' = AckExchange("RESET_SERIAL_MESSAGES", <<>>, dev)
        /\ last' = Call("reset_serial_messages", [none |-> 0], AckOutcome(dev),
                        AckReturn(dev, RESET_SERIAL_MESSAGES_OK))
        /\ UNCHANGED <<msg_id_list, hardware, channels, disc, analog_rx, life, drain>>

(***************************************************************************)
(* Initial state: the fields set by __init__ before any port is probed.    *)
(***************************************************************************)
InitHardware ==
    [firmware_version |-> 0, machine_type |-> 0, max_states |-> 0,
     cycle_period |-> 0, max_serial_events |-> 0, serial_message_max_bytes |-> 0,
     n_global_timers |-> 0, n_global_counters |-> 0, n_conditions |-> 0,
     inputs |-> <<>>, outputs |-> <<>>, n_uart_channels |-> 0,
     n_flex_channels |-> 0, live_timestamps |-> 0,
     inputs_enabled |-> <<>>]

NoConn == 0

\* __init__ lines 37-40: no connection object, not ready; closes[c] counts
\* the close() calls that connection c received, call is the latest
\* open()/close() call
InitLife ==
    [bpod_com_ready |-> FALSE, arcom |-> NoConn, arcom_secondary |-> NoConn,
     arcom_analog |-> NoConn, closes |-> <<>>,
     call |-> [op |-> "none", outcome |-> "return", closed |-> <<>>,
               base |-> FALSE]]

\* no analog decode is running
InitDrain ==
    [pc |-> "idle", n_channels |-> 0, n_bytes_available |-> 0, buffered |-> 0,
     log |-> <<>>, ret |-> <<>>, primary_at_query |-> "none",
     primary_at_read |-> "none"]

InitDisc ==
    [pc |-> "idle", serial_port |-> NoPort, ports |-> <<>>,
     available_ports |-> <<>>, i |-> 0,
     primary_port |-> NoPort, secondary_port |-> NoPort, analog_port |-> NoPort,
     bad_ports |-> <<>>, log |-> <<>>, exc |-> "none"]

Init ==
    /\ msg_id_list = [k \in 0..(MsgIdListLen - 1) |-> FALSE]
    /\ hardware = InitHardware
    /\ channels = [input_channel_names |-> <<>>, output_channel_names |-> <<>>]
    /\ io = <<>>
    /\ last = Call("none", [none |-> 0], "return", FALSE)
    /\ disc = InitDisc
    /\ analog_rx = <<>>
    /\ life = InitLife
    /\ drain = InitDrain

(***************************************************************************)
(* _bpodcom_identify_USB_serial_ports                                      *)
(*                                                                         *)
(* Endpoints are named 1, 2, ...; ArCOM.list_ports() returns the first n   *)
(* of them in that order.  Each probe draws the transport's outcome: a     *)
(* fault (SerialException) at open, at a write or at the read, or the byte *)
(* that the read returns (NoByte when the read times out).                 *)
(***************************************************************************)
DEv(ev, port, phase, ok, value, what) ==
    [ev |-> ev, port |-> port, phase |-> phase, ok |-> ok, value |-> value,
     what |-> what]

ScanOutcomes ==
    {[fault |-> f, byte |-> NoByte] : f \in {"open", "read"}}
    \cup {[fault |-> "none", byte |-> b] : b \in {PRIMARY_PORT_PING, 0, NoByte}}

ClassifyOutcomes ==
    {[fault |-> f, byte |-> NoByte] : f \in {"open", "write", "read"}}
    \cup {[fault |-> "none", byte |-> b] :
            b \in {SECONDARY_PORT_HANDSHAKE_OK, ANALOG_PORT_HANDSHAKE_OK, NoByte}}

SameIndex(i) == i

\* the for loops advance to the next list item
NextIndex(i) == i + 1

RemovePrimarySkipped(available_ports, primary_port) == available_ports

\* available_ports.remove(primary_port)
RemovePrimary(available_ports, primary_port) ==
    PyRemove(available_ports, primary_port)

RemoveBadPortsSkipped(available_ports, bad_ports) == available_ports

\* for port in bad_ports: available_ports.remove(port)
RemoveBadPorts(available_ports, bad_ports) ==
    PyRemoveAll(available_ports, bad_ports)

RECURSIVE RemoveRaises(_, _)
\* list.remove raises ValueError when the item is not in the list
RemoveRaises(list, xs) ==
    IF xs = <<>> THEN FALSE
    ELSE IF ~PyContains(list, Head(xs)) THEN TRUE
    ELSE RemoveRaises(PyRemove(list, Head(xs)), Tail(xs))

\* available_ports = ArCOM.list_ports(); the four locals; the serial_port test
DiscoveryCall ==
    /\ disc.pc = "idle"
    /\ \E n \in 0..MaxPorts, serial_port \in {NoPort} \cup 1..MaxPorts :
        disc' = [disc EXCEPT
                    !.ports = [k \in 1..n |-> k],
                    !.available_ports = [k \in 1..n |-> k],
                    !.serial_port = serial_port,
                    !.primary_port = serial_port,
                    !.i = 1,
                    !.pc = IF serial_port = NoPort THEN "scan" ELSE "remove"]
    /\ UNCHANGED <<msg_id_list, hardware, channels, io, last, analog_rx, life, drain>>

\* open, read_uint8 and close of a scan probe that met no fault
ScanProbeLog(port, byte) ==
    <<DEv("open", port, "scan", TRUE, NoByte, ""),
      DEv("read", port, "scan", TRUE, byte, ""),
      DEv("close", port, "scan", TRUE, NoByte, "")>>

ScanFoundNoBreak(d, port, o) ==
    [d EXCEPT
        !.log = @ \o ScanProbeLog(port, o.byte),
        !.primary_port = port,
        !.i = NextIndex(@)]

\* reading == PRIMARY_PORT_PING: primary_port = port; close; break
ScanFound(d, port, o) ==
    [d EXCEPT
        !.log = @ \o ScanProbeLog(port, o.byte),
        !.primary_port = port,
        !.pc = "remove"]

ScanMissMarksBad(d, port, o) ==
    [d EXCEPT
        !.log = @ \o ScanProbeLog(port, o.byte),
        !.bad_ports = Append(@, port),
        !.i = NextIndex(@)]

\* any other reading: close, next candidate
ScanMiss(d, port, o) ==
    [d EXCEPT
        !.log = @ \o ScanProbeLog(port, o.byte),
        !.i = NextIndex(@)]

\* one iteration of the primary scan on candidate port
ScanStep(d, port, o) ==
    IF o.fault = "open"
    THEN [d EXCEPT
            !.log = Append(@, DEv("open", port, "scan", FALSE, NoByte, "")),
            !.bad_ports = Append(@, port),
            !.i = NextIndex(@)]
    ELSE IF o.fault = "read"
    THEN [d EXCEPT
            !.log = @ \o <<DEv("open", port, "scan", TRUE, NoByte, ""),
                           DEv("read", port, "scan", FALSE, NoByte, "")>>,
            !.bad_ports = Append(@, port),
            !.i = NextIndex(@)]
    ELSE IF o.byte = PRIMARY_PORT_PING
    THEN ScanFound(d, port, o)
    ELSE ScanMiss(d, port, o)

ScanProbe ==
    /\ disc.pc = "scan"
    /\ disc.i <= Len(disc.available_ports)
    /\ \E o \in ScanOutcomes :
        disc' = ScanStep(disc, disc.available_ports[disc.i], o)
    /\ UNCHANGED <<msg_id_list, hardware, channels, io, last, analog_rx, life, drain>>

\* the scan loop runs out of candidates
ScanEnd ==
    /\ disc.pc = "scan"
    /\ disc.i > Len(disc.available_ports)
    /\ disc' = [disc EXCEPT !.pc = "remove"]
    /\ UNCHANGED <<msg_id_list, hardware, channels, io, last, analog_rx, life, drain>>

\* if primary_port: the two removals and the primary connection's open
PreparePool ==
    /\ disc.pc = "remove"
    /\ IF disc.primary_port = NoPort
       THEN disc' = [disc EXCEPT !.pc = "return"]
       ELSE IF RemoveRaises(disc.available_ports,
                            <<disc.primary_port>> \o disc.bad_ports)
       THEN disc' = [disc EXCEPT !.pc = "raised", !.exc = "ValueError"]
       ELSE \E ok \in BOOLEAN :
            disc' = [disc EXCEPT
                        !.available_ports =
                            RemoveBadPorts(RemovePrimary(@, disc.primary_port),
                                           disc.bad_ports),
                        !.log = Append(@, DEv("open", disc.primary_port,
                                              "primary", ok, NoByte, "")),
                        !.i = 1,
                        !.pc = IF ok THEN "classify" ELSE "raised",
                        !.exc = IF ok THEN "none" ELSE "SerialException"]
    /\ UNCHANGED <<msg_id_list, hardware, channels, io, last, analog_rx, life, drain>>

\* one iteration of the role classification on candidate port
ClassifyStep(d, port, o) ==
    LET open == DEv("open", port, "classify", TRUE, NoByte, "")
        w1(ok) == DEv("write", d.primary_port, "primary", ok, NoByte,
                      "SECONDARY_PORT_HANDSHAKE")
        w2 == DEv("write", d.primary_port, "primary", TRUE, NoByte,
                  "ANALOG_PORT_HANDSHAKE")
        close == DEv("close", port, "classify", TRUE, NoByte, "")
    IN
    IF o.fault = "open"
    THEN [d EXCEPT
            !.log = Append(@, DEv("open", port, "classify", FALSE, NoByte, "")),
            !.bad_ports = Append(@, port),
            !.i = NextIndex(@)]
    ELSE IF o.fault = "write"
    THEN [d EXCEPT
            !.log = @ \o <<open, w1(FALSE)>>,
            !.bad_ports = Append(@, port),
            !.i = NextIndex(@)]
    ELSE IF o.fault = "read"
    THEN [d EXCEPT
            !.log = @ \o <<open, w1(TRUE), w2,
                           DEv("read", port, "classify", FALSE, NoByte, "")>>,
            !.bad_ports = Append(@, port),
            !.i = NextIndex(@)]
    ELSE [d EXCEPT
            !.log = @ \o <<open, w1(TRUE), w2,
                           DEv("read", port, "classify", TRUE, o.byte, ""), close>>,
            !.secondary_port =
                IF o.byte = SECONDARY_PORT_HANDSHAKE_OK THEN port ELSE @,
            !.analog_port =
                IF o.byte # SECONDARY_PORT_HANDSHAKE_OK
                   /\ o.byte = ANALOG_PORT_HANDSHAKE_OK THEN port ELSE @,
            !.i = NextIndex(@)]

StillSearchingAlways(d) == TRUE

\* if not secondary_port or not analog_port
StillSearching(d) == ~(d.secondary_port # NoPort /\ d.analog_port # NoPort)

ClassifyProbe ==
    /\ disc.pc = "classify"
    /\ disc.i <= Len(disc.available_ports)
    /\ StillSearching(disc)
    /\ \E o \in ClassifyOutcomes :
        disc' = ClassifyStep(disc, disc.available_ports[disc.i], o)
    /\ UNCHANGED <<msg_id_list, hardware, channels, io, last, analog_rx, life, drain>>

\* the loop ends (exhausted, or break once both roles are found);
\* primary_connection.close(); return
ClassifyEnd ==
    /\ disc.pc = "classify"
    /\ ~(disc.i <= Len(disc.available_ports) /\ StillSearching(disc))
    /\ disc' = [disc EXCEPT
                    !.log = Append(@, DEv("close", disc.primary_port, "primary",
                                          TRUE, NoByte, "")),
                    !.pc = "return"]
    /\ UNCHANGED <<msg_id_list, hardware, channels, io, last, analog_rx, life, drain>>

NextDiscovery ==
    \/ DiscoveryCall
    \/ ScanProbe
    \/ ScanEnd
    \/ PreparePool
    \/ ClassifyProbe
    \/ ClassifyEnd

SpecDiscovery == Init /\ [][NextDiscovery]_vars

(***************************************************************************)
(* _bpodcom_firmware_version, _bpodcom_hardware_description                *)
(*                                                                         *)
(* The device's reply is a byte stream; the driver consumes it front to    *)
(* back with fixed-width reads.  A read past the end of the stream times   *)
(* out and yields NoByte.                                                  *)
(***************************************************************************)
\* character codes of the channel-type letters
Ord(c) ==
    CASE c = "U" -> 85 [] c = "F" -> 70 [] c = "B" -> 66 [] c = "W" -> 87
      [] c = "P" -> 80 [] c = "V" -> 86 [] OTHER -> 63

Chr(b) ==
    CASE b = 85 -> "U" [] b = 70 -> "F" [] b = 66 -> "B" [] b = 87 -> "W"
      [] b = 80 -> "P" [] b = 86 -> "V" [] OTHER -> "?"

\* a 16-bit value as the device sends it, low byte first
EncodeUint16(v) == <<v % 256, (v \div 256) % 256>>

\* the hardware description as the device lays it out for firmware fw
DeviceDescription(fw, f) ==
    EncodeUint16(f.max_states) \o EncodeUint16(f.cycle_period)
    \o <<f.max_serial_events>>
    \o (IF fw > FirmwareThreshold THEN <<f.serial_message_max_bytes>> ELSE <<>>)
    \o <<f.n_global_timers, f.n_global_counters, f.n_conditions>>
    \o <<Len(f.inputs)>> \o [k \in 1..Len(f.inputs) |-> Ord(f.inputs[k])]
    \o <<Len(f.outputs)>> \o [k \in 1..Len(f.outputs) |-> Ord(f.outputs[k])]

\* read_uint8 at stream position pos
ReadUint8(stream, pos) == IF pos <= Len(stream) THEN stream[pos] ELSE NoByte

\* read_uint16 at stream positions pos, pos + 1
ReadUint16(stream, pos) ==
    IF pos + 1 <= Len(stream) THEN stream[pos] + 256 * stream[pos + 1] ELSE NoByte

\* read_char_array(array_len = n) starting at pos
ReadCharArray(stream, pos, n) ==
    [k \in 1..n |-> IF pos + k - 1 <= Len(stream)
                    THEN Chr(stream[pos + k - 1]) ELSE "?"]

ReadsMaxBytesNever(firmware_version) == FALSE

ReadsMaxBytesFrom22(firmware_version) == firmware_version >= FirmwareThreshold

\* if hardware.firmware_version > 22
ReadsMaxBytes(firmware_version) == firmware_version > FirmwareThreshold

\* len([idx for idx in inputs if idx == code])
CountCode(inputs, code) == Cardinality({k \in 1..Len(inputs) : inputs[k] = code})

\* the whole negotiation on reply stream and live-timestamp byte live:
\* [hardware, io, consumed]
HardwareDescription(hw, stream, live) ==
    LET max_states == ReadUint16(stream, 1)
        cycle_period == ReadUint16(stream, 3)
        max_serial_events == ReadUint8(stream, 5)
        extra == ReadsMaxBytes(hw.firmware_version)
        serial_message_max_bytes ==
            IF extra THEN ReadUint8(stream, 6) ELSE DefaultSerialMessageMaxBytes
        p == IF extra THEN 7 ELSE 6
        n_global_timers == ReadUint8(stream, p)
        n_global_counters == ReadUint8(stream, p + 1)
        n_conditions == ReadUint8(stream, p + 2)
        n_inputs == ReadUint8(stream, p + 3)
        inputs == ReadCharArray(stream, p + 4, n_inputs)
        q == p + 4 + Len(inputs)
        n_outputs == ReadUint8(stream, q)
        outputs == ReadCharArray(stream, q + 1, n_outputs)
    IN  [hardware |->
            [hw EXCEPT
                !.max_states = max_states,
                !.cycle_period = cycle_period,
                !.max_serial_events = max_serial_events,
                !.serial_message_max_bytes = serial_message_max_bytes,
                !.n_global_timers = n_global_timers,
                !.n_global_counters = n_global_counters,
                !.n_conditions = n_conditions,
                !.inputs = inputs,
                !.outputs = outputs,
                !.n_uart_channels = CountCode(inputs, "U"),
                !.n_flex_channels = CountCode(inputs, "F"),
                !.live_timestamps = live],
         io |->
            <<WriteEv("primary", "HARDWARE_DESCRIPTION", <<>>, TRUE),
              ReadEv("primary", 2, max_states, TRUE),
              ReadEv("primary", 2, cycle_period, TRUE),
              ReadEv("primary", 1, max_serial_events, TRUE)>>
            \o (IF extra
                THEN <<ReadEv("primary", 1, serial_message_max_bytes, TRUE)>>
                ELSE <<>>)
            \o <<ReadEv("primary", 1, n_global_timers, TRUE),
                 ReadEv("primary", 1, n_global_counters, TRUE),
                 ReadEv("primary", 1, n_conditions, TRUE),
                 ReadEv("primary", 1, n_inputs, TRUE),
                 ReadEv("primary", Len(inputs), inputs, TRUE),
                 ReadEv("primary", 1, n_outputs, TRUE),
                 ReadEv("primary", Len(outputs), outputs, TRUE),
                 WriteEv("primary", "GET_TIMESTAMP_TRANSMISSION", <<>>, TRUE),
                 ReadEv("primary", 1, live, TRUE)>>,
         consumed |-> q + Len(outputs)]

\* inputs of the negotiation
FirmwareVersions == (FirmwareThreshold - 1)..(FirmwareThreshold + 1)

InputLayouts ==
    UNION {[1..n -> {"U", "F", "B"}] : n \in 0..MaxChannels}

OutputLayouts ==
    {[k \in 1..n |-> IF k % 2 = 1 THEN "V" ELSE "U"] : n \in 0..MaxChannels}

DeviceFields ==
    {[max_states |-> 258, cycle_period |-> 100, max_serial_events |-> 15,
      serial_message_max_bytes |-> 5, n_global_timers |-> 4,
      n_global_counters |-> 6, n_conditions |-> 7,
      inputs |-> ins, outputs |-> outs] :
        ins \in InputLayouts, outs \in OutputLayouts}

\* the caller stores the pair this returns in hardware.firmware_version and
\* hardware.machine_type
bpodcom_firmware_version ==
    \E fw_version \in FirmwareVersions, machine_type \in {4} :
        /\ io' = <<WriteEv("primary", "FIRMWARE_VERSION", <<>>, TRUE),
                   ReadEv("primary", 2, fw_version, TRUE),
                   ReadEv("primary", 2, machine_type, TRUE)>>
        /\ hardware' = [hardware EXCEPT !.firmware_version = fw_version,
                                        !.machine_type = machine_type]
        /\ last' = Call("firmware_version", [none |-> 0], "return",
                        <<fw_version, machine_type>>)
        /\ UNCHANGED <<msg_id_list, channels, disc, analog_rx, life, drain>>

\* what the transport does to the negotiation: the live-timestamp byte it
\* ends with, or where a SerialException ends it
NegotiationOutcomes ==
    {[fault |-> "none", live |-> live] : live \in {0, 1}}
    \cup {[fault |-> fault, live |-> 0] :
            fault \in {"read", "timestamp_read"}}

\* the negotiation when the transport may fault at the read of the timestamp
\* exchange that follows the assignments of the description fields
FaultedDescription(hw, r, fault) ==
    LET n == Len(r.io)
        assigned == [r.hardware EXCEPT !.live_timestamps = hw.live_timestamps]
    IN  CASE fault = "none" ->
                [hardware |-> r.hardware, io |-> r.io, outcome |-> "return"]
          [] fault = "timestamp_read" ->
                [hardware |-> assigned,
                 io |-> SubSeq(r.io, 1, n - 1)
                        \o <<ReadEv("primary", 1, NoByte, FALSE)>>,
                 outcome |-> "SerialException"]

bpodcom_hardware_description ==
    /\ hardware.firmware_version # 0
    /\ \E t \in NegotiationOutcomes :
        IF t.fault = "read"
        THEN /\ hardware' = hardware
             /\ io' = <<WriteEv("primary", "HARDWARE_DESCRIPTION", <<>>, TRUE),
                        ReadEv("primary", 2, NoByte, FALSE)>>
             /\ last' = Call("hardware_description",
                             [fields |-> <<>>, stream |-> <<>>],
                             "SerialException", 0)
        ELSE \E f \in DeviceFields :
             \E stream \in {DeviceDescription(hardware.firmware_version, f)} :
             \E r \in {HardwareDescription(hardware, stream, t.live)} :
             \E o \in {FaultedDescription(hardware, r, t.fault)} :
                /\ hardware' = o.hardware
                /\ io' = o.io
                /\ last' = Call("hardware_description",
                                [fields |-> f, stream |-> stream], o.outcome,
                                r.consumed)
    /\ UNCHANGED <<msg_id_list, channels, disc, analog_rx, life, drain>>

NextHardware ==
    \/ bpodcom_firmware_version
    \/ bpodcom_hardware_description

SpecHardware == Init /\ [][NextHardware]_vars

(***************************************************************************)
(* manual_override and the three writes it dispatches to                   *)
(***************************************************************************)
\* channel_name + str(channel_number)
JoinName(channel_name, channel_number) == <<channel_name, channel_number>>

\* list.index(x): 0-based position of the first occurrence
PyListIndex(list, x) == PyFirst(list, x) - 1

\* write_array([opcode, channel_number, value]) on the primary connection
OverrideWrite(opcode, channel_number, value, dev) ==
    <<WriteEv("primary", opcode, <<channel_number, value>>, dev.fault = "none")>>

IsSerialNameLowercase(channel_name) == channel_name = "serial"

\* if channel_name == 'Serial'
IsSerialName(channel_name) == channel_name = "Serial"

IsNotInputType(channel_type) == channel_type # "INPUT"

\* elif channel_type == ChannelType.OUTPUT
IsOutputType(channel_type) == channel_type = "OUTPUT"

\* the whole call: [io, outcome]
ManualOverride(tables, channel_type, channel_name, channel_number, value, dev) ==
    LET joined == JoinName(channel_name, channel_number)
    IN
    IF channel_type = "INPUT"
    THEN IF ~PyContains(tables.input_channel_names, joined)
         THEN [io |-> <<>>, outcome |-> "ValueError"]
         ELSE [io |-> OverrideWrite("MANUAL_OVERRIDE_EXEC_EVENT",
                        PyListIndex(tables.input_channel_names, joined), value, dev),
               outcome |-> IF dev.fault = "none" THEN "return"
                           ELSE "BpodErrorException"]
    ELSE IF IsOutputType(channel_type)
    THEN IF IsSerialName(channel_name)
         THEN [io |-> OverrideWrite("SEND_TO_HW_SERIAL", channel_number, value, dev),
               outcome |-> IF dev.fault = "none" THEN "return"
                           ELSE "SerialException"]
         ELSE IF ~PyContains(tables.output_channel_names, joined)
         THEN [io |-> <<>>, outcome |-> "BpodErrorException"]
         ELSE [io |-> OverrideWrite("OVERRIDE_DIGITAL_HW_STATE",
                        PyListIndex(tables.output_channel_names, joined), value, dev),
               outcome |-> IF dev.fault = "none" THEN "return"
                           ELSE "BpodErrorException"]
    ELSE [io |-> <<>>, outcome |-> "BpodErrorException"]

\* inputs of manual_override
ChannelTypes == {"INPUT", "OUTPUT", "OTHER"}

ChannelNames == {"Serial", "Valve", "Port", "Wire"}

ChannelNumbers == 0..(MaxChannels + 1)

OverrideValues == {0, 1, 255}

WriteOutcomes == {[fault |-> f, response |-> 0] : f \in {"none", "write"}}

NamesUpTo(name, n) == [k \in 1..n |-> JoinName(name, k)]

ChannelTables ==
    {[input_channel_names |-> NamesUpTo("Serial", 1) \o NamesUpTo("Port", MaxChannels),
      output_channel_names |-> NamesUpTo("Serial", 1) \o NamesUpTo("Valve", MaxChannels)],
     [input_channel_names |-> NamesUpTo("Port", MaxChannels) \o NamesUpTo("Wire", 1),
      output_channel_names |-> NamesUpTo("Valve", MaxChannels)]}

\* the channel-name tables are built once the hardware description is known
setup_channels ==
    /\ channels.input_channel_names = <<>>
    /\ \E tables \in ChannelTables : channels' = tables
    /\ UNCHANGED <<msg_id_list, hardware, io, last, disc, analog_rx, life, drain>>

manual_override ==
    \E channel_type \in ChannelTypes, channel_name \in ChannelNames,
       channel_number \in ChannelNumbers, value \in OverrideValues,
       dev \in WriteOutcomes :
        LET r == ManualOverride(channels, channel_type, channel_name,
                                channel_number, value, dev)
        IN  /\ io' = r.io
            /\ last' = Call("manual_override",
                            [channel_type |-> channel_type,
                             channel_name |-> channel_name,
                             channel_number |-> channel_number,
                             value |-> value],
                            r.outcome, FALSE)
            /\ UNCHANGED <<msg_id_list, hardware, channels, disc, analog_rx, life, drain>>

NextOverride ==
    \/ setup_channels
    \/ manual_override

SpecOverride == Init /\ [][NextOverride]_vars

(***************************************************************************)
(* _bpodcom_enable_ports                                                   *)
(*                                                                         *)
(* The four index lists are fields of the capabilities record that this    *)
(* file only reads: they hold distinct 0-based positions of                *)
(* hardware.inputs, each position in at most one list.  The enablement     *)
(* lists come from the settings module.                                    *)
(***************************************************************************)
\* a settings boolean as the byte get_uint8_array makes of it
PyInt(b) == IF b THEN 1 ELSE 0

OverlayFirstValue(bitmap, indexes, enabled) ==
    [bitmap |-> [k \in 1..Len(bitmap) |->
                    IF \E j \in 1..Min(Len(indexes), Len(enabled)) : indexes[j] = k - 1
                    THEN PyInt(enabled[1])
                    ELSE bitmap[k]],
     raised |-> Len(indexes) > Len(enabled)]

\* for j, i in enumerate(indexes): inputs_enabled[i] = enabled[j]
\* (enabled[j] raises IndexError when the settings list is too short)
Overlay(bitmap, indexes, enabled) ==
    [bitmap |-> [k \in 1..Len(bitmap) |->
                    IF \E j \in 1..Min(Len(indexes), Len(enabled)) : indexes[j] = k - 1
                    THEN PyInt(enabled[CHOOSE j \in 1..Min(Len(indexes), Len(enabled)) :
                                            indexes[j] = k - 1])
                    ELSE bitmap[k]],
     raised |-> Len(indexes) > Len(enabled)]

\* the four loops in order; a loop that raises ends the call
OverlayAll(n_inputs, idx, settings) ==
    LET zero == [bitmap |-> [k \in 1..n_inputs |-> 0], raised |-> FALSE]
        step(acc, indexes, enabled) ==
            IF acc.raised THEN acc ELSE Overlay(acc.bitmap, indexes, enabled)
    IN  step(step(step(step(zero, idx.bnc, settings.bnc),
                       idx.wired, settings.wired),
                  idx.behavior, settings.behavior),
             idx.flex, settings.flex)

\* the whole call: [inputs_enabled, io, outcome, ret]
EnablePorts(hw, idx, settings, dev) ==
    LET o == OverlayAll(Len(hw.inputs), idx, settings)
    IN  IF o.raised
        THEN [inputs_enabled |-> o.bitmap, io |-> <<>>,
              outcome |-> "IndexError", ret |-> FALSE]
        ELSE [inputs_enabled |-> o.bitmap,
              io |-> AckExchange("ENABLE_PORTS", o.bitmap, dev),
              outcome |-> AckOutcome(dev),
              ret |-> AckReturn(dev, ENABLE_PORTS_OK)]

\* the ascending sequence of the members of a set of numbers
SortedSeq(S) ==
    CHOOSE q \in [1..Cardinality(S) -> S] :
        \A i, j \in 1..Cardinality(S) : i < j => q[i] < q[j]

InputRoles == {"bnc", "wired", "behavior", "flex", "none"}

\* the index lists of a record whose input at position k has role assign[k]
IndexLists(assign) ==
    [role \in InputRoles \ {"none"} |->
        SortedSeq({k - 1 : k \in {i \in DOMAIN assign : assign[i] = role}})]

\* settings.BPOD_*_PORTS_ENABLED
PortSettings ==
    {[bnc |-> bnc, wired |-> <<TRUE>>,
      behavior |-> <<TRUE, TRUE, TRUE, FALSE, FALSE, FALSE, FALSE, FALSE>>,
      flex |-> <<FALSE, TRUE>>] :
        bnc \in {<<TRUE, FALSE>>, <<TRUE, TRUE>>}}

bpodcom_enable_ports ==
    \E assign \in [1..Len(hardware.inputs) -> InputRoles],
       settings \in PortSettings, dev \in DeviceOutcomes :
        \E idx \in {IndexLists(assign)} :
        \E r \in {EnablePorts(hardware, idx, settings, dev)} :
            /\ hardware' = [hardware EXCEPT !.inputs_enabled = r.inputs_enabled]
            /\ io' = r.io
            /\ last' = Call("enable_ports", [idx |-> idx, settings |-> settings],
                            r.outcome, r.ret)
            /\ UNCHANGED <<msg_id_list, channels, disc, analog_rx, life, drain>>

\* the capabilities record once firmware version and description are read
NegotiatedHardware ==
    {HardwareDescription([InitHardware EXCEPT !.firmware_version = FirmwareThreshold + 1,
                                              !.machine_type = 4],
                         DeviceDescription(FirmwareThreshold + 1, f), 1).hardware :
        f \in {g \in DeviceFields :
                /\ g.outputs = <<>>
                /\ \A k \in DOMAIN g.inputs : g.inputs[k] = "B"}}

InitNegotiated ==
    /\ msg_id_list = [k \in 0..(MsgIdListLen - 1) |-> FALSE]
    /\ hardware \in NegotiatedHardware
    /\ channels = [input_channel_names |-> <<>>, output_channel_names |-> <<>>]
    /\ io = <<>>
    /\ last = Call("none", [none |-> 0], "return", FALSE)
    /\ disc = InitDisc
    /\ analog_rx = <<>>
    /\ life = InitLife
    /\ drain = InitDrain

SpecEnablePorts == InitNegotiated /\ [][bpodcom_enable_ports]_vars

(***************************************************************************)
(* The other commands that wait for the device's acknowledgement: one      *)
(* write of opcode (+ payload) on the primary connection, one read, and    *)
(* the comparison with the command's OK code.                              *)
(***************************************************************************)
\* ArduinoTypes.get_uint32_array([v]): four bytes, least significant first
EncodeUint32(v) ==
    <<v % 256, (v \div 256) % 256, (v \div 65536) % 256, (v \div 16777216) % 256>>

\* ArduinoTypes.get_uint16_array(values): two bytes per value
EncodeUint16Array(values) ==
    [k \in 1..(2 * Len(values)) |-> EncodeUint16(values[(k + 1) \div 2])[2 - (k % 2)]]

\* what the transport does to the exchange: the answer, or a fault
AckOutcomesFor(ok_code) ==
    {[fault |-> "none", response |-> r] : r \in {ok_code, 0}}
    \cup {[fault |-> f, response |-> 0] : f \in {"write", "read"}}

AckCommand(op, opcode, payload, ok_code) ==
    \E dev \in AckOutcomesFor(ok_code) :
        /\ io' = AckExchange(opcode, payload, dev)
        /\ last' = Call(op, [payload |-> payload], AckOutcome(dev),
                        AckReturn(dev, ok_code))
        /\ UNCHANGED <<msg_id_list, hardware, channels, disc, analog_rx, life, drain>>

bpodcom_disconnect ==
    AckCommand("disconnect", "DISCONNECT", <<>>, DISCONNECT_OK)

bpodcom_handshake ==
    AckCommand("handshake", "HANDSHAKE", <<>>, HANDSHAKE_OK)

bpodcom_reset_clock ==
    AckCommand("reset_clock", "RESET_CLOCK", <<>>, RESET_CLOCK_OK)

bpodcom_set_sync_channel_and_mode ==
    \E sync_channel \in {1, 255}, sync_mode \in {0, 1} :
        AckCommand("set_sync_channel_and_mode", "SYNC_CHANNEL_MODE",
                   <<sync_channel, sync_mode>>, SYNC_CHANNEL_MODE_OK)

FlexValues == {<<0, 1>>, <<4, 4>>}

bpodcom_set_flex_channel_types ==
    \E channel_types \in FlexValues :
        AckCommand("set_flex_channel_types", "SET_FLEX_CHANNEL_TYPES",
                   channel_types, SET_FLEX_CHANNEL_TYPES_OK)

bpodcom_set_analog_input_sampling_interval ==
    \E sampling_interval \in {1, 70000} :
        AckCommand("set_analog_input_sampling_interval",
                   "SET_ANALOG_INPUT_SAMPLING_INTERVAL",
                   EncodeUint32(sampling_interval),
                   SET_ANALOG_INPUT_SAMPLING_INTERVAL_OK)

ThresholdValues == {<<0, 300>>, <<4095, 1>>}

bpodcom_set_analog_input_thresholds ==
    \E thresholds_1 \in ThresholdValues, thresholds_2 \in ThresholdValues :
        AckCommand("set_analog_input_thresholds", "SET_ANALOG_INPUT_THRESHOLDS",
                   EncodeUint16Array(thresholds_1 \o thresholds_2),
                   SET_ANALOG_INPUT_THRESHOLDS_OK)

bpodcom_set_analog_input_threshold_polarity ==
    \E polarity_1 \in FlexValues, polarity_2 \in FlexValues :
        AckCommand("set_analog_input_threshold_polarity",
                   "SET_ANALOG_INPUT_THRESHOLD_POLARITY",
                   polarity_1 \o polarity_2,
                   SET_ANALOG_INPUT_THRESHOLD_POLARITY_OK)

bpodcom_set_analog_input_threshold_mode ==
    \E modes \in FlexValues :
        AckCommand("set_analog_input_threshold_mode",
                   "SET_ANALOG_INPUT_THRESHOLD_MODE", modes,
                   SET_ANALOG_INPUT_THRESHOLD_MODE_OK)

bpodcom_enable_analog_input_threshold ==
    \E channel \in {0, 1}, threshold \in {0, 1}, value \in {0, 1} :
        AckCommand("enable_analog_input_threshold",
                   "ENABLE_ANALOG_INPUT_THRESHOLD",
                   <<channel, threshold, value>>,
                   ENABLE_ANALOG_INPUT_THRESHOLD_OK)

NextCommands ==
    \/ bpodcom_disconnect
    \/ bpodcom_handshake
    \/ bpodcom_reset_clock
    \/ bpodcom_enable_ports
    \/ bpodcom_set_sync_channel_and_mode
    \/ bpodcom_load_serial_message
    \/ bpodcom_reset_serial_messages
    \/ bpodcom_set_flex_channel_types
    \/ bpodcom_set_analog_input_sampling_interval
    \/ bpodcom_set_analog_input_thresholds
    \/ bpodcom_set_analog_input_threshold_polarity
    \/ bpodcom_set_analog_input_threshold_mode
    \/ bpodcom_enable_analog_input_threshold

SpecCommands == Init /\ [][NextCommands]_vars

(***************************************************************************)
(* _bpodcom_read_analog_input_samples                                      *)
(*                                                                         *)
(* The device appends bytes to the analog connection at its own pace; the  *)
(* driver asks how many are waiting and reads whole groups of              *)
(* n_channels + 1 uint16 values.                                           *)
(***************************************************************************)
AnalogBytes == {0, 7}

\* the device puts one more byte of the analog stream on the wire
analog_device_sends ==
    /\ Len(analog_rx) < MaxAnalogBytes
    /\ \E byte \in AnalogBytes : analog_rx' = Append(analog_rx, byte)
    /\ UNCHANGED <<msg_id_list, hardware, channels, io, last, disc, life, drain>>

\* bytes_available() on a connection
QueryEv(conn, value) ==
    [op |-> "bytes_available", conn |-> conn, value |-> value, ok |-> TRUE]

\* read_uint16_array(array_len = count): the values decoded from the bytes
\* the buffer holds, and what is left in the buffer
ReadUint16Array(rx, count) ==
    LET got == Min(2 * count, Len(rx))
    IN  [values |-> [k \in 1..(got \div 2) |-> ReadUint16(rx, 2 * k - 1)],
         rest |-> SubSeq(rx, got + 1, Len(rx))]

SampleGroupsPerValue(n_bytes_available, n_channels) ==
    n_bytes_available \div (n_channels + 1)

\* int(n_bytes_available / (2 * (n_channels + 1))), both operands >= 0
SampleGroups(n_bytes_available, n_channels) ==
    n_bytes_available \div (2 * (n_channels + 1))

\* the whole call: [io, ret, rest]
ReadAnalogInputSamples(rx, n_channels) ==
    LET n_bytes_available == Len(rx)
        n_samples == SampleGroups(n_bytes_available, n_channels)
        count == n_samples * (n_channels + 1)
        msg == ReadUint16Array(rx, count)
    IN  IF n_bytes_available > 0 /\ n_samples > 0
        THEN [io |-> <<QueryEv("analog", n_bytes_available),
                       ReadEv("analog", 2 * count, msg.values, TRUE)>>,
              ret |-> msg.values,
              rest |-> msg.rest]
        ELSE [io |-> <<QueryEv("analog", n_bytes_available)>>,
              ret |-> <<>>,
              rest |-> rx]

AnalogChannelCounts == 0..MaxChannels

bpodcom_read_analog_input_samples ==
    \E n_channels \in AnalogChannelCounts :
        LET r == ReadAnalogInputSamples(analog_rx, n_channels)
        IN  /\ io' = r.io
            /\ analog_rx' = r.rest
            /\ last' = Call("read_analog_input_samples",
                            [n_channels |-> n_channels,
                             n_bytes_available |-> Len(analog_rx)],
                            "return", r.ret)
            /\ UNCHANGED <<msg_id_list, hardware, channels, disc, life, drain>>

NextAnalog ==
    \/ analog_device_sends
    \/ bpodcom_read_analog_input_samples

SpecAnalog == Init /\ [][NextAnalog]_vars

(***************************************************************************)
(* _bpodcom_echo_softcode                                                  *)
(***************************************************************************)
\* write_char(value) of a byte that is not an opcode
WriteByteEv(conn, value, ok) == WriteEv(conn, "", <<value>>, ok)

\* the three writes in order, up to the first one that faults
EchoSoftcode(softcode, faulty) ==
    LET all == <<WriteEv("primary", "ECHO_SOFTCODE", <<>>, faulty # 1),
                 WriteByteEv("primary", softcode, faulty # 2),
                 WriteEv("primary", "ECHO_SOFTCODE", <<softcode>>, faulty # 3)>>
    IN  IF faulty = 0 THEN all ELSE SubSeq(all, 1, faulty)

Softcodes == {1, 255}

bpodcom_echo_softcode ==
    \E softcode \in Softcodes, faulty \in 0..3 :
        /\ io' = EchoSoftcode(softcode, faulty)
        /\ last' = Call("echo_softcode", [softcode |-> softcode],
                        IF faulty = 0 THEN "return" ELSE "SerialException", FALSE)
        /\ UNCHANGED <<msg_id_list, hardware, channels, disc, analog_rx, life, drain>>

NextFireAndForget ==
    \/ NextOverride
    \/ bpodcom_echo_softcode

SpecFireAndForget == Init /\ [][NextFireAndForget]_vars

NextSerialMessages ==
    \/ bpodcom_load_serial_message
    \/ bpodcom_reset_serial_messages

SpecSerialMessages == Init /\ [][NextSerialMessages]_vars

(***************************************************************************)
(* open, close and _bpodcom_connect                                        *)
(*                                                                         *)
(* Connections are numbered in the order ArCOM().open() creates them.      *)
(* The base class's open() connects with the configured endpoints and may  *)
(* raise; its close() talks to the device and may raise.                   *)
(***************************************************************************)
MaxConnections == 6

\* self.<role> = ArCOM().open(...)
OpenRole(l, role) ==
    [l EXCEPT !.closes = Append(@, 0), ![role] = Len(l.closes) + 1]

\* _bpodcom_connect; fault names the open that raises
Connect(l, secondary_port, analog_port, fault) ==
    LET a == IF fault = "primary" THEN l ELSE OpenRole(l, "arcom")
        b == IF fault \in {"primary", "secondary"} \/ ~secondary_port
             THEN a ELSE OpenRole(a, "arcom_secondary")
        c == IF fault \in {"primary", "secondary", "analog"} \/ ~analog_port
             THEN b ELSE OpenRole(b, "arcom_analog")
    IN  c

OpenFaults == {"none", "primary", "secondary", "analog", "base"}

LifeCall(op, outcome, closed, base) ==
    [op |-> op, outcome |-> outcome, closed |-> closed, base |-> base]

\* open(): super().open(), then bpod_com_ready = True
open ==
    /\ Len(life.closes) + 3 <= MaxConnections
    /\ \E secondary_port \in BOOLEAN, analog_port \in BOOLEAN,
          fault \in OpenFaults :
        /\ fault = "secondary" => secondary_port
        /\ fault = "analog" => analog_port
        /\ life' = [Connect(life, secondary_port, analog_port, fault) EXCEPT
                        !.bpod_com_ready = IF fault = "none" THEN TRUE ELSE @,
                        !.call = LifeCall("open",
                                          IF fault = "none" THEN "return"
                                          ELSE "SerialException",
                                          <<>>, TRUE)]
    /\ UNCHANGED <<msg_id_list, hardware, channels, io, last, disc, analog_rx,
                   drain>>

\* the connections close() closes, in order
CloseTargets(l) ==
    <<l.arcom>>
    \o (IF l.arcom_secondary # NoConn THEN <<l.arcom_secondary>> ELSE <<>>)
    \o (IF l.arcom_analog # NoConn THEN <<l.arcom_analog>> ELSE <<>>)

RECURSIVE CloseAll(_, _)
CloseAll(closes, conns) ==
    IF conns = <<>> THEN closes
    ELSE CloseAll([closes EXCEPT ![Head(conns)] = @ + 1], Tail(conns))

TeardownKeepsReady(l, base_ok) ==
    IF ~l.bpod_com_ready
    THEN [l EXCEPT !.call = LifeCall("close", "return", <<>>, FALSE)]
    ELSE IF ~base_ok
    THEN [l EXCEPT !.call = LifeCall("close", "SerialException", <<>>, TRUE)]
    ELSE [l EXCEPT
            !.closes = CloseAll(@, CloseTargets(l)),
            !.call = LifeCall("close", "return", CloseTargets(l), TRUE)]

\* close(): nothing unless bpod_com_ready; super().close(), the closes of
\* the role connections, bpod_com_ready = False
Teardown(l, base_ok) ==
    IF ~l.bpod_com_ready
    THEN [l EXCEPT !.call = LifeCall("close", "return", <<>>, FALSE)]
    ELSE IF ~base_ok
    THEN [l EXCEPT !.call = LifeCall("close", "SerialException", <<>>, TRUE)]
    ELSE [l EXCEPT
            !.closes = CloseAll(@, CloseTargets(l)),
            !.bpod_com_ready = FALSE,
            !.call = LifeCall("close", "return", CloseTargets(l), TRUE)]

close ==
    /\ \E base_ok \in BOOLEAN : life' = Teardown(life, base_ok)
    /\ UNCHANGED <<msg_id_list, hardware, channels, io, last, disc, analog_rx,
                   drain>>

NextLifecycle ==
    \/ open
    \/ close

SpecLifecycle == Init /\ [][NextLifecycle]_vars

(***************************************************************************)
(* _bpodcom_read_analog_input_samples run by one execution context while    *)
(* the device keeps sending on the analog connection and another context   *)
(* runs commands on the primary connection.  The call is split at its two  *)
(* uses of the analog connection: bytes_available() and                    *)
(* read_uint16_array().                                                    *)
(***************************************************************************)
ValuesToReadRoundedUp(n_bytes_available, n_channels) ==
    ((n_bytes_available + 2 * (n_channels + 1) - 1)
        \div (2 * (n_channels + 1))) * (n_channels + 1)

\* n_samples * (n_channels + 1)
ValuesToRead(n_bytes_available, n_channels) ==
    SampleGroups(n_bytes_available, n_channels) * (n_channels + 1)

\* n_bytes_available = self._arcom_analog.bytes_available() and the two tests
drain_bytes_available ==
    /\ drain.pc = "idle"
    /\ \E n_channels \in AnalogChannelCounts :
        drain' = [pc |-> IF /\ Len(analog_rx) > 0
                            /\ SampleGroups(Len(analog_rx), n_channels) > 0
                         THEN "read" ELSE "idle",
                  n_channels |-> n_channels,
                  n_bytes_available |-> Len(analog_rx),
                  buffered |-> 0,
                  log |-> <<QueryEv("analog", Len(analog_rx))>>,
                  ret |-> <<>>,
                  primary_at_query |-> last.op,
                  primary_at_read |-> "none"]
    /\ UNCHANGED <<msg_id_list, hardware, channels, io, last, disc, analog_rx,
                   life>>

\* msg = self._arcom_analog.read_uint16_array(...); return msg
drain_read ==
    /\ drain.pc = "read"
    /\ \E count \in {ValuesToRead(drain.n_bytes_available, drain.n_channels)} :
       \E msg \in {ReadUint16Array(analog_rx, count)} :
        /\ analog_rx' = msg.rest
        /\ drain' = [drain EXCEPT
                        !.pc = "idle",
                        !.buffered = Len(analog_rx),
                        !.log = Append(@, ReadEv("analog", 2 * count,
                                                 msg.values, TRUE)),
                        !.ret = msg.values,
                        !.primary_at_read = last.op]
    /\ UNCHANGED <<msg_id_list, hardware, channels, io, last, disc, life>>

StreamBytes == {7}

\* the device puts the next byte of a running sample stream on the wire
analog_device_streams ==
    /\ Len(analog_rx) < MaxAnalogBytes
    /\ \E byte \in StreamBytes : analog_rx' = Append(analog_rx, byte)
    /\ UNCHANGED <<msg_id_list, hardware, channels, io, last, disc, life,
                   drain>>

NextConcurrentDrain ==
    \/ analog_device_streams
    \/ drain_bytes_available
    \/ drain_read
    \/ bpodcom_reset_clock

SpecConcurrentDrain == Init /\ [][NextConcurrentDrain]_vars

Next ==
    \/ NextSerialMessages
    \/ NextDiscovery
    \/ NextHardware
    \/ NextOverride
    \/ NextAnalog
    \/ NextCommands
    \/ bpodcom_echo_softcode
    \/ NextLifecycle
    \/ drain_bytes_available
    \/ drain_read

Spec == Init /\ [][Next]_vars

(***************************************************************************)
(* Claims about the serial-message store.                                  *)
(***************************************************************************)
LastIsLoad == last.op = "load_serial_message"

LoadViolatesConstraint ==
    \/ Len(last.args.serial_message) > last.args.max_bytes
    \/ last.args.message_id < 1
    \/ last.args.message_id > 255

\* C1: a store whose message is longer than max_bytes or whose slot id is
\* outside [1,255] is rejected with an error and performs no write and no
\* read on any connection.
C1_RejectedStoreDoesNoIO ==
    (LastIsLoad /\ LoadViolatesConstraint)
        => (last.outcome \in {"BpodErrorException", "IndexError"} /\ io = <<>>)

C1_Witness ==
    /\ LastIsLoad
    /\ last.args.message_id = 0
    /\ Len(last.args.serial_message) <= last.args.max_bytes
    /\ last.outcome = "BpodErrorException"
    /\ io = <<>>

\* C2: a rejected store (message longer than max_bytes, or slot id outside
\* [1,255]) leaves msg_id_list exactly as it was before the call.
C2_RejectedStoreKeepsTable ==
    [][(last'.op = "load_serial_message"
        /\ (\/ Len(last'.args.serial_message) > last'.args.max_bytes
            \/ last'.args.message_id < 1
            \/ last'.args.message_id > 255))
       => msg_id_list' = msg_id_list]_vars

\* C3: for every slot id in [1,255] and every message no longer than
\* max_bytes the store raises no error of its own and the slot is present in
\* the table afterwards, whatever the device answered.
C3_ValidStoreMarksSlot ==
    (LastIsLoad /\ ~LoadViolatesConstraint)
        => /\ last.outcome \notin {"IndexError", "BpodErrorException"}
           /\ last.args.message_id \in DOMAIN msg_id_list
           /\ msg_id_list[last.args.message_id]

\* C4: every store with a slot id outside [1,255] or a message longer than
\* max_bytes fails with BpodErrorException, never with another error.
C4_RejectionIsBpodError ==
    (LastIsLoad /\ LoadViolatesConstraint)
        => last.outcome = "BpodErrorException"

(***************************************************************************)
(* Claims about port discovery.                                            *)
(***************************************************************************)
Range(list) == {list[k] : k \in 1..Len(list)}

DiscLogIdx == 1..Len(disc.log)

Opens(port, phase) ==
    {k \in DiscLogIdx : /\ disc.log[k].ev = "open"
                        /\ disc.log[k].port = port
                        /\ disc.log[k].phase = phase}

\* candidates whose probe faulted during the primary scan
ScanFaulted ==
    {disc.log[k].port : k \in {j \in DiscLogIdx : /\ disc.log[j].phase = "scan"
                                                  /\ ~disc.log[j].ok}}

\* endpoints on which an open or a read faulted, in any phase
OpenOrReadFaulted ==
    {disc.log[k].port : k \in {j \in DiscLogIdx : /\ disc.log[j].ev \in {"open", "read"}
                                                  /\ ~disc.log[j].ok}}

DiscFinished == disc.pc \in {"return", "raised"}

\* C5: the tuple (primary, secondary, analog) returned by discovery never
\* holds the same endpoint in two roles.
C5_RolesDistinct ==
    disc.pc = "return" =>
        /\ disc.primary_port # NoPort =>
                disc.primary_port \notin {disc.secondary_port, disc.analog_port}
        /\ disc.secondary_port # NoPort =>
                disc.secondary_port # disc.analog_port

C5_Witness ==
    /\ disc.pc = "return"
    /\ disc.primary_port # NoPort
    /\ disc.secondary_port # NoPort
    /\ disc.analog_port # NoPort

\* C6: a candidate whose probe raised a transport fault during the primary
\* scan is never opened for secondary/analog classification in the same call
\* and is never returned in any role.
C6_ScanFaultedExcluded ==
    \A port \in ScanFaulted :
        /\ Opens(port, "classify") = {}
        /\ port \notin {disc.primary_port, disc.secondary_port, disc.analog_port}

C6_Witness ==
    /\ disc.pc = "return"
    /\ ScanFaulted # {}
    /\ \E port \in 1..MaxPorts : Opens(port, "classify") # {}
    /\ disc.secondary_port # NoPort

C7_OpenedAtMostOnce ==
    \A port \in 1..MaxPorts :
        /\ Cardinality(Opens(port, "scan")) <= 1
        /\ Cardinality(Opens(port, "classify")) <= 1

C7_Progress ==
    /\ disc.i <= Len(disc.available_ports) + 1
    /\ DiscFinished \/ ENABLED NextDiscovery

C7_NothingResolved ==
    /\ disc.pc = "return"
    /\ disc.primary_port = NoPort
    /\ disc.secondary_port = NoPort
    /\ disc.analog_port = NoPort
    /\ disc.log = <<>>

ScanBeacons ==
    {disc.log[k].port : k \in {j \in DiscLogIdx : /\ disc.log[j].phase = "scan"
                                                  /\ disc.log[j].ev = "read"
                                                  /\ disc.log[j].ok
                                                  /\ disc.log[j].value = PRIMARY_PORT_PING}}

\* candidates whose scan probe opened and read a timeout or another byte
ScanNoBeacon ==
    {disc.log[k].port : k \in {j \in DiscLogIdx : /\ disc.log[j].phase = "scan"
                                                  /\ disc.log[j].ev = "read"
                                                  /\ disc.log[j].ok
                                                  /\ disc.log[j].value # PRIMARY_PORT_PING}}

ScanOpened == {port \in 1..MaxPorts : Opens(port, "scan") # {}}

\* C18: the primary scan probes candidates in list order and stops at the
\* first candidate whose first byte equals the beacon: no candidate after it
\* in the list is opened in the scan.
C18_ScanStopsAtFirstBeacon ==
    /\ \A j, k \in DiscLogIdx :
            (/\ j < k
             /\ disc.log[j].phase = "scan" /\ disc.log[j].ev = "open"
             /\ disc.log[k].phase = "scan" /\ disc.log[k].ev = "open")
                => disc.log[j].port < disc.log[k].port
    /\ \A port \in ScanOpened : \A q \in 1..port : q \in ScanOpened
    /\ \A port \in ScanBeacons :
            /\ disc.primary_port = port
            /\ \A q \in ScanOpened : q <= port

\* the beacon came from the second of at least three candidates
C18_Witness ==
    /\ disc.pc = "return"
    /\ Len(disc.ports) >= 3
    /\ ScanBeacons = {2}
    /\ ScanOpened = {1, 2}

ScanNoBeaconHandled(port) ==
    /\ port \in Range(disc.bad_ports) => Opens(port, "classify") # {}
    /\ \E k \in DiscLogIdx : /\ disc.log[k].ev = "close"
                              /\ disc.log[k].phase = "scan"
                              /\ disc.log[k].port = port
    /\ PyContains(disc.available_ports, port)

ReturnedWithPrimary == disc.pc = "return" /\ disc.primary_port # NoPort

\* C19 (as claimed): a candidate that opens in the primary scan but yields
\* no beacon is not marked bad, has its probe connection closed, and is
\* probed for the secondary/analog roles once a primary has been found.
C19_NoBeaconStillProbed ==
    \A port \in ScanNoBeacon :
        /\ ScanNoBeaconHandled(port)
        /\ ReturnedWithPrimary => Opens(port, "classify") # {}

\* C19 (amended): such a candidate is not marked bad by the scan, has its
\* probe connection closed and stays in the classification pool; when
\* discovery returns with a primary it has been probed for the
\* secondary/analog roles unless both roles were resolved by candidates
\* before it in the list.
C19_NoBeaconStaysInPool ==
    \A port \in ScanNoBeacon :
        /\ ScanNoBeaconHandled(port)
        /\ (ReturnedWithPrimary /\ Opens(port, "classify") = {}) =>
                /\ disc.secondary_port \in 1..(port - 1)
                /\ disc.analog_port \in 1..(port - 1)

\* one beaconless candidate became the secondary, a later one was never
\* reached
C19_Witness ==
    /\ ReturnedWithPrimary
    /\ \E port \in ScanNoBeacon : disc.secondary_port = port
    /\ \E port \in ScanNoBeacon : Opens(port, "classify") = {}

DiscNoFault == \A k \in DiscLogIdx : disc.log[k].ok

\* C20: with a pre-configured serial_port discovery performs no beacon
\* probe, returns that endpoint as the primary and classifies the other
\* candidates, whether or not the candidate list holds the configured
\* endpoint.
C20_ConfiguredPrimaryUsed ==
    (disc.serial_port # NoPort /\ DiscFinished /\ DiscNoFault) =>
        /\ disc.pc = "return"
        /\ disc.primary_port = disc.serial_port
        /\ \A k \in DiscLogIdx : disc.log[k].phase # "scan"
        /\ \A port \in Range(disc.ports) \ {disc.serial_port} :
                Opens(port, "classify") # {} \/ ~StillSearching(disc)

\* C8: a transport fault raised by an open or a read on any endpoint during
\* discovery never leaves the call: the faulting endpoint is recorded as bad
\* and the call goes on to return the roles it resolved.
C8_FaultsSwallowed ==
    /\ disc.exc # "SerialException"
    /\ \A port \in OpenOrReadFaulted : PyContains(disc.bad_ports, port)

(***************************************************************************)
(* Claims about capability negotiation.                                    *)
(***************************************************************************)
\* the most recent call was a negotiation that ran to its return
LastIsDescription ==
    last.op = "hardware_description" /\ last.outcome = "return"

\* C9: with firmware <= 22 the negotiation reads no max-byte field (the
\* read after max-serial-events is the global-timer count) and sets
\* serial_message_max_bytes to 3; with firmware > 22 it reads exactly one
\* u8 between max-serial-events and the global-timer count and stores it.
C9_MaxBytesFieldByFirmware ==
    LastIsDescription =>
        LET f == last.args.fields
        IN  /\ io[4].value = f.max_serial_events
            /\ hardware.max_serial_events = f.max_serial_events
            /\ hardware.n_global_timers = f.n_global_timers
            /\ hardware.firmware_version <= 22 =>
                /\ hardware.serial_message_max_bytes = 3
                /\ io[5].value = f.n_global_timers
                /\ Len(io) = 13
            /\ hardware.firmware_version > 22 =>
                /\ hardware.serial_message_max_bytes = f.serial_message_max_bytes
                /\ io[5] = ReadEv("primary", 1, f.serial_message_max_bytes, TRUE)
                /\ io[6].value = f.n_global_timers
                /\ Len(io) = 14

C9_Witness ==
    /\ LastIsDescription
    /\ hardware.firmware_version = 22
    /\ hardware.serial_message_max_bytes = 3
    /\ Len(hardware.inputs) = MaxChannels

(***************************************************************************)
(* Claims about manual override.                                           *)
(***************************************************************************)
LastIsSerialOverride ==
    /\ last.op = "manual_override"
    /\ last.args.channel_type = "OUTPUT"
    /\ last.args.channel_name = "Serial"

\* C10: manual_override with category OUTPUT and name 'Serial' sends exactly
\* one message [SEND_TO_HW_SERIAL, channel_number, value] and never an
\* OVERRIDE_DIGITAL_HW_STATE message, whether or not a 'Serial<n>' name is in
\* the output-name table.
C10_SerialOverrideRoute ==
    LastIsSerialOverride =>
        /\ Len(io) = 1
        /\ io[1].op = "write"
        /\ io[1].conn = "primary"
        /\ io[1].opcode = "SEND_TO_HW_SERIAL"
        /\ io[1].payload = <<last.args.channel_number, last.args.value>>

C10_Witness ==
    /\ LastIsSerialOverride
    /\ PyContains(channels.output_channel_names,
                  JoinName("Serial", last.args.channel_number))
    /\ last.outcome = "return"
    /\ io[1].opcode = "SEND_TO_HW_SERIAL"

LastIsOverride == last.op = "manual_override"

LastJoinedName == JoinName(last.args.channel_name, last.args.channel_number)

LastIsInputMiss ==
    /\ LastIsOverride
    /\ last.args.channel_type = "INPUT"
    /\ ~PyContains(channels.input_channel_names, LastJoinedName)

\* C11: manual_override with category INPUT and a name+index that is not in
\* the input-name table fails with BpodErrorException and sends nothing to
\* the device.
C11_InputMissIsBpodError ==
    LastIsInputMiss =>
        /\ last.outcome = "BpodErrorException"
        /\ io = <<>>

LastIsOutputMiss ==
    /\ LastIsOverride
    /\ last.args.channel_type = "OUTPUT"
    /\ last.args.channel_name # "Serial"
    /\ ~PyContains(channels.output_channel_names, LastJoinedName)

LastIsOtherCategory ==
    /\ LastIsOverride
    /\ last.args.channel_type \notin {"INPUT", "OUTPUT"}

\* C12: manual_override with category OUTPUT and a name other than 'Serial'
\* whose name+index is not in the output-name table, and manual_override
\* with a category that is neither INPUT nor OUTPUT, both fail with
\* BpodErrorException and send nothing to the device.
C12_OutputMissAndOtherCategory ==
    (LastIsOutputMiss \/ LastIsOtherCategory) =>
        /\ last.outcome = "BpodErrorException"
        /\ io = <<>>

\* a category that is neither INPUT nor OUTPUT, with a name that the
\* output-name table does list
C12_Witness ==
    /\ LastIsOtherCategory
    /\ PyContains(channels.output_channel_names, LastJoinedName)
    /\ last.outcome = "BpodErrorException"
    /\ io = <<>>

IoFaulted == \E k \in 1..Len(io) : ~io[k].ok

\* C16: a SerialException raised by a read or write of a command outside
\* discovery, the writes inside manual_override included, reaches the caller
\* as a SerialException: it is not swallowed, not turned into a boolean
\* result and not converted into a BpodErrorException.
C16_TransportFaultPropagates ==
    IoFaulted => last.outcome = "SerialException"

(***************************************************************************)
(* Claims about the analog stream.                                         *)
(***************************************************************************)
\* a step of the driver: the device's steps make the buffer one byte longer
AnalogReadStep == Len(analog_rx') # Len(analog_rx) + 1

ReadsOf(log) == {k \in 1..Len(log) : log[k].op = "read"}

\* floor(b / (2*(N+1))) * (N+1)
WholeGroupValues(b, n) == (b \div (2 * (n + 1))) * (n + 1)

AnalogDecodeStep ==
    LET b == Len(analog_rx)
        n == last'.args.n_channels
        want == WholeGroupValues(b, n)
    IN  /\ last'.op = "read_analog_input_samples"
        /\ last'.args.n_bytes_available = b
        /\ last'.outcome = "return"
        /\ Len(last'.ret) = want
        /\ 2 * want <= b
        /\ analog_rx' = SubSeq(analog_rx, 2 * want + 1, b)
        /\ \A k \in 1..want :
                last'.ret[k] = analog_rx[2 * k - 1] + 256 * analog_rx[2 * k]
        /\ IF want = 0
           THEN ReadsOf(io') = {}
           ELSE /\ Cardinality(ReadsOf(io')) = 1
                /\ \A k \in ReadsOf(io') : /\ io'[k].conn = "analog"
                                            /\ io'[k].width = 2 * want
        /\ (2 * (n + 1) <= b /\ b < 4 * (n + 1)) => want = n + 1

\* C13: for b bytes available and n_channels = N the analog decode requests
\* exactly floor(b / (2*(N+1))) * (N+1) uint16 values: none, and an empty
\* result, when b = 0 or b < 2*(N+1); N+1 values and exactly the bytes of
\* that group when one complete group is available; never more bytes than
\* were reported available.
C13_AnalogDecodeWholeGroups == [][AnalogReadStep => AnalogDecodeStep]_vars

\* one complete group of two values was read, the incomplete group was left
C13_Witness ==
    /\ last.op = "read_analog_input_samples"
    /\ last.args.n_channels = 1
    /\ last.args.n_bytes_available = 5
    /\ Len(last.ret) = 2
    /\ Len(analog_rx) = 1

(***************************************************************************)
(* Claims about enable-ports and the acknowledged commands.                *)
(***************************************************************************)
LastIsEnablePorts == last.op = "enable_ports"

\* the position of hardware input index i in an index list, 0 when absent
ListedAt(indexes, i) ==
    IF \E j \in 1..Len(indexes) : indexes[j] = i
    THEN CHOOSE j \in 1..Len(indexes) : indexes[j] = i
    ELSE 0

SettingsCoverIndexes ==
    \A role \in InputRoles \ {"none"} :
        Len(last.args.idx[role]) <= Len(last.args.settings[role])

OkCodeOf(op) ==
    CASE op = "handshake" -> HANDSHAKE_OK
      [] op = "disconnect" -> DISCONNECT_OK
      [] op = "reset_clock" -> RESET_CLOCK_OK
      [] op = "enable_ports" -> ENABLE_PORTS_OK
      [] op = "set_sync_channel_and_mode" -> SYNC_CHANNEL_MODE_OK
      [] op = "load_serial_message" -> LOAD_SERIAL_MESSAGE_OK
      [] op = "reset_serial_messages" -> RESET_SERIAL_MESSAGES_OK
      [] op = "set_flex_channel_types" -> SET_FLEX_CHANNEL_TYPES_OK
      [] op = "set_analog_input_sampling_interval" ->
            SET_ANALOG_INPUT_SAMPLING_INTERVAL_OK
      [] op = "set_analog_input_thresholds" -> SET_ANALOG_INPUT_THRESHOLDS_OK
      [] op = "set_analog_input_threshold_polarity" ->
            SET_ANALOG_INPUT_THRESHOLD_POLARITY_OK
      [] op = "set_analog_input_threshold_mode" ->
            SET_ANALOG_INPUT_THRESHOLD_MODE_OK
      [] op = "enable_analog_input_threshold" -> ENABLE_ANALOG_INPUT_THRESHOLD_OK
      [] OTHER -> NoByte

AckOps ==
    {"handshake", "disconnect", "reset_clock", "enable_ports",
     "set_sync_channel_and_mode", "load_serial_message", "reset_serial_messages",
     "set_flex_channel_types", "set_analog_input_sampling_interval",
     "set_analog_input_thresholds", "set_analog_input_threshold_polarity",
     "set_analog_input_threshold_mode", "enable_analog_input_threshold"}

\* the call wrote its request and met no transport fault
AckExchanged == last.op \in AckOps /\ io # <<>> /\ ~IoFaulted

\* C15: each acknowledged command reads exactly one response value after
\* its write and returns true iff that value equals the command's OK code;
\* on a mismatching response it returns false, raises no error and writes
\* nothing further.
C15_AckReadOnceAndCompared ==
    AckExchanged =>
        /\ Len(io) = 2
        /\ io[1].op = "write" /\ io[1].conn = "primary"
        /\ io[2].op = "read" /\ io[2].conn = "primary" /\ io[2].width = 1
        /\ last.outcome = "return"
        /\ last.ret = (io[2].value = OkCodeOf(last.op))

\* the device answered the handshake with a byte that is not HANDSHAKE_OK
C15_Witness ==
    /\ last.op = "handshake"
    /\ Len(io) = 2
    /\ io[2].ok
    /\ io[2].value # HANDSHAKE_OK
    /\ last.outcome = "return"
    /\ last.ret = FALSE

(***************************************************************************)
(* Claims about request/response ordering.                                 *)
(***************************************************************************)
\* opcodes the device does not answer
NoResponseOpcodes ==
    {"MANUAL_OVERRIDE_EXEC_EVENT", "SEND_TO_HW_SERIAL", "OVERRIDE_DIGITAL_HW_STATE"}

IoRequests ==
    {k \in 1..Len(io) : /\ io[k].op = "write"
                        /\ io[k].ok
                        /\ io[k].opcode \notin NoResponseOpcodes}

\* the handshake bytes discovery writes are requests: the device answers
\* each of them on the connection of the role it names
DiscRequests == {k \in DiscLogIdx : disc.log[k].ev = "write" /\ disc.log[k].ok}

\* C17: on every connection at most one request that expects a response is
\* outstanding: a second such request is written on a connection only after
\* the response to the previous one has been read.
C17_OneRequestOutstanding ==
    /\ \A j, k \in IoRequests :
            (j < k /\ io[j].conn = io[k].conn) =>
                \E r \in (j + 1)..(k - 1) : io[r].op = "read" /\ io[r].ok
    /\ \A j, k \in DiscRequests :
            (j < k /\ disc.log[j].port = disc.log[k].port) =>
                \E r \in (j + 1)..(k - 1) :
                    disc.log[r].ev = "read" /\ disc.log[r].ok

(***************************************************************************)
(* Claims about the presence table across operations.                      *)
(***************************************************************************)
SlotsKept == \A k \in DOMAIN msg_id_list : msg_id_list[k] => msg_id_list'[k]

\* C25: the 255-slot presence table is changed only by the load-message
\* operation and an entry once present never becomes absent; in particular
\* _bpodcom_reset_serial_messages leaves the table unchanged.
C25_TableOnlyGrowsByLoad ==
    [][msg_id_list' # msg_id_list =>
            /\ SlotsKept
            /\ last'.op = "load_serial_message"]_vars

\* the device acknowledged a reset and two slots are still marked
C25_Witness ==
    /\ last.op = "reset_serial_messages"
    /\ last.ret = TRUE
    /\ msg_id_list[1]
    /\ msg_id_list[MsgIdListLen - 1]

(***************************************************************************)
(* Claims about echo-softcode.                                             *)
(***************************************************************************)
WritesOf(log) == {k \in 1..Len(log) : log[k].op = "write"}

OpcodeWrites(log, opcode) == {k \in WritesOf(log) : log[k].opcode = opcode}

PayloadWrites(log, payload) == {k \in WritesOf(log) : log[k].payload = payload}

\* C26: _bpodcom_echo_softcode transmits the echo-softcode opcode followed by
\* the softcode value exactly once per call (one opcode byte and one payload
\* byte on the primary connection, nothing else) and reads no response.
C26_EchoSentOnce ==
    (last.op = "echo_softcode" /\ last.outcome = "return") =>
        /\ Cardinality(OpcodeWrites(io, "ECHO_SOFTCODE")) = 1
        /\ Cardinality(PayloadWrites(io, <<last.args.softcode>>)) = 1
        /\ \A k \in WritesOf(io) : io[k].conn = "primary"
        /\ ReadsOf(io) = {}

(***************************************************************************)
(* Claims about the order and the atomicity of capability negotiation.     *)
(***************************************************************************)
\* the reads of the description for device fields f, in the claimed order
DescriptionReads(f, with_max_bytes) ==
    <<ReadEv("primary", 2, f.max_states, TRUE),
      ReadEv("primary", 2, f.cycle_period, TRUE),
      ReadEv("primary", 1, f.max_serial_events, TRUE)>>
    \o (IF with_max_bytes
        THEN <<ReadEv("primary", 1, f.serial_message_max_bytes, TRUE)>>
        ELSE <<>>)
    \o <<ReadEv("primary", 1, f.n_global_timers, TRUE),
         ReadEv("primary", 1, f.n_global_counters, TRUE),
         ReadEv("primary", 1, f.n_conditions, TRUE),
         ReadEv("primary", 1, Len(f.inputs), TRUE),
         ReadEv("primary", Len(f.inputs), f.inputs, TRUE),
         ReadEv("primary", 1, Len(f.outputs), TRUE),
         ReadEv("primary", Len(f.outputs), f.outputs, TRUE)>>

\* C24: negotiation writes the hardware-description opcode once and then
\* reads, in this order and with nothing written in between, max states,
\* cycle period, max serial events, the max-bytes field only when firmware
\* > 22, timers, counters, conditions, the input count and that many input
\* codes, the output count and that many output codes; only then does it
\* write the get-timestamp-transmission opcode and read one byte, and the
\* device's reply has been consumed to its end.
C24_NegotiationOrder ==
    LastIsDescription =>
        /\ io = <<WriteEv("primary", "HARDWARE_DESCRIPTION", <<>>, TRUE)>>
                \o DescriptionReads(last.args.fields,
                                    hardware.firmware_version > FirmwareThreshold)
                \o <<WriteEv("primary", "GET_TIMESTAMP_TRANSMISSION", <<>>, TRUE),
                     ReadEv("primary", 1, hardware.live_timestamps, TRUE)>>
        /\ last.ret = Len(last.args.stream)

C24_Witness ==
    /\ LastIsDescription
    /\ hardware.firmware_version = FirmwareThreshold + 1
    /\ Len(io) = 14
    /\ Len(hardware.inputs) = MaxChannels
    /\ Len(hardware.outputs) = 1
    /\ hardware.live_timestamps = 1

\* C30: a transport fault in any read or write of the negotiation, the final
\* timestamp-transmission exchange included, leaves the capabilities record
\* as it was before the call.
C30_FaultKeepsHardware ==
    [][(last'.op = "hardware_description" /\ last'.outcome = "SerialException")
            => hardware' = hardware]_vars

\* the events a classification step appends to the log
ClassifyAppended == SubSeq(disc'.log, Len(disc.log) + 1, Len(disc'.log))

BothResolved == disc.secondary_port # NoPort /\ disc.analog_port # NoPort

\* a classification step that ran the whole probe of candidate port: the
\* open, the two handshake writes on the primary in order, one read from
\* the candidate, the close; the roles follow the byte read
ClassifyProbeShape(port, new) ==
    /\ Len(new) = 5
    /\ new[1] = DEv("open", port, "classify", TRUE, NoByte, "")
    /\ new[2] = DEv("write", disc.primary_port, "primary", TRUE, NoByte,
                    "SECONDARY_PORT_HANDSHAKE")
    /\ new[3] = DEv("write", disc.primary_port, "primary", TRUE, NoByte,
                    "ANALOG_PORT_HANDSHAKE")
    /\ new[4].ev = "read" /\ new[4].port = port /\ new[4].phase = "classify"
    /\ new[5] = DEv("close", port, "classify", TRUE, NoByte, "")
    /\ disc'.secondary_port = port <=> new[4].value = SECONDARY_PORT_HANDSHAKE_OK
    /\ disc'.analog_port = port <=> new[4].value = ANALOG_PORT_HANDSHAKE_OK
    /\ new[4].value # SECONDARY_PORT_HANDSHAKE_OK
            => disc'.secondary_port = disc.secondary_port
    /\ new[4].value # ANALOG_PORT_HANDSHAKE_OK
            => disc'.analog_port = disc.analog_port

\* C21: in role classification each probed candidate gets the secondary
\* handshake and then the analog handshake written on the primary connection
\* and one byte read from the candidate; it becomes Secondary iff the byte is
\* the secondary-OK code, Analog iff it is the analog-OK code, and is left
\* unassigned otherwise; once both roles are resolved no further candidate is
\* opened and no further handshake byte is written on the primary.
C21_ClassifyByHandshake ==
    [][(disc.pc = "classify" /\ disc' # disc) =>
            /\ BothResolved =>
                    ClassifyAppended = <<DEv("close", disc.primary_port,
                                             "primary", TRUE, NoByte, "")>>
            /\ (\E k \in 1..Len(ClassifyAppended) :
                    ClassifyAppended[k].ev = "read" /\ ClassifyAppended[k].ok)
                    => ClassifyProbeShape(disc.available_ports[disc.i],
                                          ClassifyAppended)]_vars

\* both roles resolved by the first two of three candidates of the pool: the
\* third is never opened
C21_Witness ==
    /\ disc.pc = "return"
    /\ BothResolved
    /\ Len(disc.available_ports) = 3
    /\ disc.i = 3
    /\ Opens(disc.available_ports[3], "classify") = {}

\* the closes of the connection opened by log entry k
ClosesOf(k) ==
    {j \in DiscLogIdx : /\ j > k
                        /\ disc.log[j].ev = "close"
                        /\ disc.log[j].port = disc.log[k].port
                        /\ disc.log[j].phase = disc.log[k].phase}

\* C22: every connection that discovery opened (each candidate probe of both
\* phases and the temporary primary connection) has been closed exactly once
\* when discovery returns, also when a read or write after the open faulted.
C22_EveryOpenClosedOnce ==
    disc.pc = "return" =>
        \A k \in DiscLogIdx :
            (disc.log[k].ev = "open" /\ disc.log[k].ok)
                => Cardinality(ClosesOf(k)) = 1

\* log entries of classification reads that returned byte
AnswersWith(byte) ==
    {k \in DiscLogIdx : /\ disc.log[k].phase = "classify"
                        /\ disc.log[k].ev = "read"
                        /\ disc.log[k].ok
                        /\ disc.log[k].value = byte}

FirstAnswerIs(byte, port) ==
    \A k \in AnswersWith(byte) :
        (\A j \in AnswersWith(byte) : k <= j) => disc.log[k].port = port

\* C28: within one discovery call a resolved role is never reassigned by a
\* later candidate's response: the returned secondary (analog) is the first
\* candidate that answered with the secondary-OK (analog-OK) code.
C28_FirstAnswerKeepsRole ==
    disc.pc = "return" =>
        /\ FirstAnswerIs(SECONDARY_PORT_HANDSHAKE_OK, disc.secondary_port)
        /\ FirstAnswerIs(ANALOG_PORT_HANDSHAKE_OK, disc.analog_port)

\* handshake bytes of one kind that went out on the primary connection
HandshakeWrites(what) ==
    {k \in DiscLogIdx : /\ disc.log[k].ev = "write"
                        /\ disc.log[k].ok
                        /\ disc.log[k].what = what}

\* the answers come from one device: one endpoint answers with the
\* secondary-OK code, one with the analog-OK code
OneDeviceAnswers ==
    /\ \A j, k \in AnswersWith(SECONDARY_PORT_HANDSHAKE_OK) :
            disc.log[j].port = disc.log[k].port
    /\ \A j, k \in AnswersWith(ANALOG_PORT_HANDSHAKE_OK) :
            disc.log[j].port = disc.log[k].port

\* answers to handshake `what` that the device sent on its role endpoint
\* (one per handshake byte written) and that discovery did not read from port
PendingAnswers(what, byte, port) ==
    Cardinality(HandshakeWrites(what))
        - Cardinality({k \in AnswersWith(byte) : disc.log[k].port = port})

\* C29: with a device that answers every secondary-handshake byte on its
\* secondary endpoint and every analog-handshake byte on its analog endpoint,
\* no handshake answer is left unread on the endpoints that discovery returns
\* as secondary and as analog.
C29_NoPendingAnswer ==
    (disc.pc = "return" /\ OneDeviceAnswers) =>
        /\ disc.secondary_port # NoPort =>
                PendingAnswers("SECONDARY_PORT_HANDSHAKE",
                               SECONDARY_PORT_HANDSHAKE_OK,
                               disc.secondary_port) = 0
        /\ disc.analog_port # NoPort =>
                PendingAnswers("ANALOG_PORT_HANDSHAKE",
                               ANALOG_PORT_HANDSHAKE_OK,
                               disc.analog_port) = 0

(***************************************************************************)
(* Claims about the open/close lifecycle.                                  *)
(***************************************************************************)
\* the role connections the driver holds
HeldConnections ==
    {life.arcom}
    \cup (IF life.arcom_secondary # NoConn THEN {life.arcom_secondary} ELSE {})
    \cup (IF life.arcom_analog # NoConn THEN {life.arcom_analog} ELSE {})

\* the step is a close() call that returned
CloseReturned ==
    /\ life' # life
    /\ life'.call.op = "close"
    /\ life'.call.outcome = "return"

\* every connection in conns received one close() more, no other any
ClosedOnceEach(conns) ==
    /\ Len(life'.closes) = Len(life.closes)
    /\ \A c \in 1..Len(life.closes) :
            life'.closes[c] = life.closes[c] + (IF c \in conns THEN 1 ELSE 0)

\* C23: over any sequence of open() and close() calls each role connection
\* is closed exactly once per teardown: close() on a ready driver closes the
\* primary connection and the secondary and analog connections that exist,
\* and clears bpod_com_ready; close() on a driver that is not ready (a
\* second close() without an open() in between included) closes nothing and
\* performs no I/O.
C23_CloseOncePerTeardown ==
    [][CloseReturned =>
            /\ ~life'.bpod_com_ready
            /\ life.bpod_com_ready =>
                    /\ ClosedOnceEach(HeldConnections)
                    /\ Range(life'.call.closed) = HeldConnections
                    /\ Len(life'.call.closed) = Cardinality(HeldConnections)
            /\ ~life.bpod_com_ready =>
                    /\ ClosedOnceEach({})
                    /\ life'.call.closed = <<>>
                    /\ ~life'.call.base]_vars

\* two open()/close() rounds with all three roles, then one more close()
C23_Witness ==
    /\ life.call = LifeCall("close", "return", <<>>, FALSE)
    /\ ~life.bpod_com_ready
    /\ Len(life.closes) = 6
    /\ \A c \in 1..6 : life.closes[c] = 1

(***************************************************************************)
(* Claims about the analog decode running beside primary commands.         *)
(***************************************************************************)
DrainReads == {k \in 1..Len(drain.log) : drain.log[k].op = "read"}

\* C27: while one context drains analog samples, another issues primary
\* commands and the device keeps appending to the analog stream, the analog
\* decode touches only the analog connection, the bytes it asks for were all
\* buffered when it read, and it returns a whole number of groups of
\* n_channels + 1 values.
C27_DrainOnlyAnalogWholeGroups ==
    /\ \A k \in 1..Len(drain.log) : drain.log[k].conn = "analog"
    /\ \A k \in 1..Len(io) : io[k].conn = "primary"
    /\ \A k \in DrainReads :
            /\ drain.log[k].width > 0
            /\ drain.log[k].width <= drain.buffered
            /\ drain.log[k].width <= drain.n_bytes_available
            /\ 2 * Len(drain.ret) = drain.log[k].width
            /\ Len(drain.ret) % (drain.n_channels + 1) = 0
    /\ (drain.pc = "idle" /\ DrainReads = {}) => drain.ret = <<>>

\* between bytes_available() and the read the device appended bytes and the
\* other context completed a primary command; one group of two values was
\* returned
C27_Witness ==
    /\ drain.pc = "idle"
    /\ DrainReads # {}
    /\ drain.n_channels = 1
    /\ drain.buffered > drain.n_bytes_available
    /\ drain.primary_at_query = "none"
    /\ drain.primary_at_read = "reset_clock"
    /\ Len(drain.ret) = 2
    /\ Len(analog_rx) = drain.buffered - 4

====
